---- MODULE Spec2Model ----
(***************************************************************************)
(* Model of the dyndns forwarding server: the DynDNSTarget hierarchy of    *)
(* src/src/dyndnsutil.py and the /dyndns request handler of                *)
(* src/src/dyndns-update-server.py.                                        *)
(*                                                                         *)
(* The handler is an `async def`: every inbound request runs as its own    *)
(* task on one event loop and tasks interleave at the awaits.  The only    *)
(* suspension points of a handler are `await asyncio.gather(...)` and, in  *)
(* each provider do_update, `async with session.get(...)`.  The model has  *)
(* one process per concurrently served request and one action per stretch  *)
(* of code between two suspension points.                                  *)
(***************************************************************************)
EXTENDS Integers, Sequences, FiniteSets, TLC

\* ------------------------------------------------------------------ bounds
\* Number of inbound requests in one behaviour.
MaxPasses == 2
\* Bits of an address of version 4 and of version 6 (32 and 128 in Python's
\* ipaddress, scaled down).
V4Bits == 2
V6Bits == 4
\* Longest list of gathered responses the reduction is applied to on its own.
MaxResponses == 3

\* ------------------------------------------------------------ basic values
\* Python's None.  Optional addresses and networks are <<>> or a tuple.
None == <<>>

\* IPv4Address(n) / IPv6Address(n): version-tagged integers.
IPv4Address(n) == <<4, n>>
IPv6Address(n) == <<6, n>>
\* IPv4Network / IPv6Network(addr/len, strict=False): the network address is
\* the address with its host bits masked away.
IPv4Network(n, prefixlen) ==
    <<4, n - (n % 2^(V4Bits - prefixlen)), prefixlen>>
IPv6Network(n, prefixlen) ==
    <<6, n - (n % 2^(V6Bits - prefixlen)), prefixlen>>

version(x) == x[1]
network_address(net) == <<net[1], net[2]>>

\* int.from_bytes(addr.packed, "big")
IntOf(addr) == addr[2]

\* addr.compressed: the canonical text of an address (injective).
compressed(addr) == <<"str", addr[1], addr[2]>>

\* Python's | on non-negative ints.
RECURSIVE BitOr(_, _)
BitOr(a, b) ==
    IF a = 0 THEN b
    ELSE IF b = 0 THEN a
    ELSE (IF (a % 2 = 1) \/ (b % 2 = 1) THEN 1 ELSE 0)
         + 2 * BitOr(a \div 2, b \div 2)

\* The TypeError of a version mismatch, as a returned value.
TypeError == <<"TypeError">>

\* A combiner that adds the suffix to the network address.
ip_from_network_and_suffix_add(network, suffix) ==
    IF version(network) # version(suffix) THEN TypeError
    ELSE LET ip == IntOf(network_address(network)) + IntOf(suffix)
         IN  IF version(network) = 4 THEN IPv4Address(ip) ELSE IPv6Address(ip)

\* lines 167-182
ip_from_network_and_suffix(network, suffix) ==
    IF version(network) # version(suffix) THEN TypeError
    ELSE LET ip == BitOr(IntOf(network_address(network)), IntOf(suffix))
         IN  IF version(network) = 4 THEN IPv4Address(ip) ELSE IPv6Address(ip)

\* ------------------------------------------------------------------ inputs
\* Parsed values of the three query parameters (lines 85-96).
InIPv4 == {None, IPv4Address(1)}
InIPv6 == {None, IPv6Address(9)}
InIPv6Prefix == {None, IPv6Network(12, 2)}

\* The suffix a target may be configured with; its bits overlap the prefix.
TheSuffix == IPv6Address(5)

\* ----------------------------------------------------------------- targets
\* DynDNSTarget.__init__.  ctor_suffix records the constructor argument of
\* the concrete class (history only); ipv6_suffix is the private field.
DynDNSTarget(name, ipv6_suffix) ==
    [ variant |-> "generic",
      name |-> name,
      ctor_suffix |-> ipv6_suffix,
      ipv6_suffix |-> ipv6_suffix,
      new_ipv4 |-> None,
      new_ipv6 |-> None,
      last_successful_ipv4 |-> None,
      last_successful_ipv6 |-> None ]

IonosDynDNSTarget(q, name, ipv6_suffix) ==
    [ DynDNSTarget(name, ipv6_suffix) EXCEPT !.variant = "ionos" ]

\* super().__init__(f"{host}.{domain}"): the suffix is not passed on.
NamecheapDynDNSTarget(ddns_password, host, domain, ipv6_suffix) ==
    [ DynDNSTarget(<<host, ".", domain>>, None) EXCEPT
        !.variant = "namecheap", !.ctor_suffix = ipv6_suffix ]

INWXDynDNSTarget(username, password, ipv6_suffix) ==
    [ DynDNSTarget(username, ipv6_suffix) EXCEPT !.variant = "inwx" ]

\* A needs_update that compares the IPv4 addresses only, in every class.
needs_update_ipv4_only(t) == t.new_ipv4 # t.last_successful_ipv4

\* DynDNSTarget.needs_update and the Namecheap override.
needs_update(t) ==
    IF t.variant = "namecheap"
    THEN t.new_ipv4 # t.last_successful_ipv4
    ELSE \/ t.new_ipv4 # t.last_successful_ipv4
         \/ t.new_ipv6 # t.last_successful_ipv6

\* An update_ips that also stores the IPv4 address as the last successful one.
update_ips_sets_last_successful(t, ipv4, ipv6, ipv6_prefix) ==
    [ t EXCEPT
        !.new_ipv4 = ipv4,
        !.last_successful_ipv4 = ipv4,
        !.new_ipv6 =
            IF t.ipv6_suffix # None
            THEN IF ipv6_prefix # None
                 THEN ip_from_network_and_suffix(ipv6_prefix, t.ipv6_suffix)
                 ELSE None
            ELSE ipv6 ]

\* DynDNSTarget.update_ips
update_ips(t, ipv4, ipv6, ipv6_prefix) ==
    [ t EXCEPT
        !.new_ipv4 = ipv4,
        !.new_ipv6 =
            IF t.ipv6_suffix # None
            THEN IF ipv6_prefix # None
                 THEN ip_from_network_and_suffix(ipv6_prefix, t.ipv6_suffix)
                 ELSE None
            ELSE ipv6 ]

\* A do_update that stores the IPv4 address only.
SetLastSuccessful_ipv4_only(t) ==
    [ t EXCEPT !.last_successful_ipv4 = t.new_ipv4 ]

\* The lines "self._last_successful_ipv4 = self._new_ipv4;
\* self._last_successful_ipv6 = self._new_ipv6" of every do_update.
SetLastSuccessful(t) ==
    [ t EXCEPT !.last_successful_ipv4 = t.new_ipv4,
               !.last_successful_ipv6 = t.new_ipv6 ]

\* An optional query parameter.
Param(key, addr) == IF addr # None THEN key :> compressed(addr) ELSE <<>>

\* A Namecheap do_update that also sends the IPv6 address.
RequestParams_namecheap_ipv6(t) ==
    CASE t.variant = "ionos" ->
            Param("ipv4", t.new_ipv4) @@ Param("ipv6", t.new_ipv6)
      [] t.variant = "namecheap" ->
            Param("ip", t.new_ipv4) @@ Param("ipv6", t.new_ipv6)
      [] t.variant = "inwx" ->
            Param("myip", t.new_ipv4) @@ Param("myipv6", t.new_ipv6)
      [] OTHER -> <<>>

\* The params dict each provider do_update builds before session.get.
RequestParams(t) ==
    CASE t.variant = "ionos" ->
            Param("ipv4", t.new_ipv4) @@ Param("ipv6", t.new_ipv6)
      [] t.variant = "namecheap" ->
            Param("ip", t.new_ipv4)
      [] t.variant = "inwx" ->
            Param("myip", t.new_ipv4) @@ Param("myipv6", t.new_ipv6)
      [] OTHER -> <<>>

\* A do_update that stores the IPv4 address before it knows the outcome.
do_update_finish_early_ipv4(t, outcome) ==
    IF outcome.kind = "True" THEN SetLastSuccessful(t)
    ELSE [t EXCEPT !.last_successful_ipv4 = t.new_ipv4]

\* The tail of every provider do_update, by what session.get ended in: a
\* raised request leaves before it; "if response_ok:" copies the new
\* addresses to the last successful ones.  (outcome.kind "True": response.ok
\* was true and do_update returns True.)
do_update_finish(t, outcome) ==
    IF outcome.kind = "True" THEN SetLastSuccessful(t) ELSE t

\* The configured list dyndns_targets (the section the operator edits): every
\* class with and without a suffix occurs in one of the lists.
TargetLists ==
    { << NamecheapDynDNSTarget("pw", "host", "domain", None),
         IonosDynDNSTarget("q", "ionos", TheSuffix) >>,
      << DynDNSTarget("generic", None) >>,
      << DynDNSTarget("generic", TheSuffix) >>,
      << IonosDynDNSTarget("q", "ionos", None) >>,
      << NamecheapDynDNSTarget("pw", "host", "domain", TheSuffix) >>,
      << INWXDynDNSTarget("user", "pw", None) >>,
      << INWXDynDNSTarget("user", "pw", TheSuffix) >> }

\* ------------------------------------------------------ transport results
HTTP_200_OK == 200
HTTP_422_UNPROCESSABLE_ENTITY == 422
HTTP_429_TOO_MANY_REQUESTS == 429
HTTP_500_INTERNAL_SERVER_ERROR == 500

\* Error statuses a provider answers with (raise_for_status=True turns every
\* status >= 400 into a ClientResponseError).
ErrorStatuses == {404, HTTP_429_TOO_MANY_REQUESTS}

Pending == [kind |-> "pending", status |-> 0]
RespTrue == [kind |-> "True", status |-> 0]
RespFalse == [kind |-> "False", status |-> 0]
RespException == [kind |-> "Exception", status |-> 0]
ClientResponseError(s) == [kind |-> "ClientResponseError", status |-> s]

\* What one outbound request can end in: response.ok true, response.ok
\* false, a ClientResponseError with a status, any other exception.
TransportOutcomes ==
    {RespTrue, RespFalse, RespException}
        \cup {ClientResponseError(s) : s \in ErrorStatuses}

\* ----------------------------------------------------------------- handler
\* The request tasks alive at one time: two, the least number that lets two
\* requests be served at once.  A task that has returned is replaced by the
\* task of the next request.
Handlers == {1, 2}

\* How a handler ended: the Response returned or the exception raised, and
\* the source line it left at.
NoResult == [kind |-> "none", status_code |-> 0, line |-> 0]
Response(code, line) ==
    [kind |-> "Response", status_code |-> code, line |-> line]
HTTPException(code, line) ==
    [kind |-> "HTTPException", status_code |-> code, line |-> line]
\* line 149 formats the undefined name e: the handler raises NameError.
NameError == [kind |-> "NameError", status_code |-> 0, line |-> 149]

\* A handler that does not reject a request without any valid value.
NoneValid_unchecked(ipv4, ipv6, ipv6prefix) == FALSE

\* line 98
NoneValid(ipv4, ipv6, ipv6prefix) ==
    ipv4 = None /\ ipv6 = None /\ ipv6prefix = None

\* A duplicate test with the prefix condition inverted.
IsFritzBoxDuplicate_no_prefix(ipv4, ipv6, ipv6prefix) ==
    ipv4 # None /\ ipv6 = None /\ ipv6prefix = None

\* line 111
IsFritzBoxDuplicate(ipv4, ipv6, ipv6prefix) ==
    ipv4 # None /\ ipv6 = None /\ ipv6prefix # None

\* lines 139-160: the loop over the gathered responses.  The result is the
\* set of error codes, or NameError when the loop raises.
RECURSIVE ParseResponses(_, _, _)
ParseResponses(responses, i, error_codes) ==
    IF i > Len(responses) THEN [raised |-> FALSE, error_codes |-> error_codes]
    ELSE LET response == responses[i] IN
         CASE response.kind = "ClientResponseError" ->
                ParseResponses(responses, i + 1,
                               error_codes \cup {response.status})
           [] response.kind = "Exception" ->
                [raised |-> TRUE, error_codes |-> error_codes]
           [] response.kind = "True" ->
                ParseResponses(responses, i + 1, error_codes)
           [] OTHER ->
                ParseResponses(responses, i + 1,
                               error_codes \cup {HTTP_500_INTERNAL_SERVER_ERROR})

\* lines 163-168
StatusFor(error_codes) ==
    IF Cardinality(error_codes) = 0 THEN Response(HTTP_200_OK, 164)
    ELSE IF Cardinality(error_codes) = 1
            /\ HTTP_429_TOO_MANY_REQUESTS \in error_codes
         THEN Response(HTTP_429_TOO_MANY_REQUESTS, 166)
         ELSE Response(HTTP_500_INTERNAL_SERVER_ERROR, 168)

\* A reduction that answers from the first failed response alone.
Reduction_first_failure(responses) ==
    LET failures == {i \in 1..Len(responses) : responses[i].kind # "True"}
    IN  IF failures = {} THEN Response(HTTP_200_OK, 164)
        ELSE LET first == responses[CHOOSE i \in failures :
                                        \A j \in failures : i <= j]
             IN  IF first.kind = "Exception" THEN NameError
                 ELSE IF first.kind = "ClientResponseError"
                 THEN StatusFor({first.status})
                 ELSE StatusFor({HTTP_500_INTERNAL_SERVER_ERROR})

\* lines 137-168 as a whole
Reduction(responses) ==
    LET parsed == ParseResponses(responses, 1, {})
    IN  IF parsed.raised THEN NameError ELSE StatusFor(parsed.error_codes)

\* ------------------------------------------------------------------- state
VARIABLES
    dyndns_targets,   \* the module-level list of targets
    handlers,         \* per request task: position, local variables, answer
    passes,           \* number of requests received so far
    last_acked,       \* history: per target, the params of the request the
                      \* provider acknowledged last (None before the first)
    called            \* a function of the program applied on its own: its
                      \* name, its arguments and, once returned, its value

vars == <<dyndns_targets, handlers, passes, last_acked, called>>

Targets == 1..Len(dyndns_targets)

\* pc: "new" (no request received yet), "gather" (in asyncio.gather, tasks
\* not yet begun), "await" (tasks begun), "done" (handler has returned).
\* History only: failed, the targets whose call of this pass failed; repeat,
\* whether the request is the one before it again, received after that one
\* was answered and no two requests were ever served at once.
NewHandler ==
    [ pc |-> "new",
      ipv4 |-> None, ipv6 |-> None, ipv6prefix |-> None,
      updated_targets |-> <<>>,
      calls |-> <<>>,
      responses |-> <<>>,
      result |-> NoResult,
      failed |-> {},
      repeat |-> FALSE ]

\* No function is applied on its own while the server runs.
NotCalled == [fn |-> "", args |-> <<>>, returned |-> FALSE, value |-> None]

Init ==
    /\ dyndns_targets \in TargetLists
    /\ handlers = [h \in Handlers |-> NewHandler]
    /\ passes = 0
    /\ last_acked = [i \in 1..Len(dyndns_targets) |-> None]
    /\ called = NotCalled

\* A handler that collects every target, whether it needs an update or not.
NeedingUpdate_all(targets, i) == [j \in 1..Len(targets) |-> j]

\* lines 118-124: the indices, in list order, of the targets that need an
\* update.
RECURSIVE NeedingUpdate(_, _)
NeedingUpdate(targets, i) ==
    IF i > Len(targets) THEN <<>>
    ELSE (IF needs_update(targets[i]) THEN <<i>> ELSE <<>>)
         \o NeedingUpdate(targets, i + 1)

\* The task of the next request takes the first place no running task holds.
FirstFree(h) ==
    /\ handlers[h].pc \in {"new", "done"}
    /\ \A g \in Handlers : g < h => handlers[g].pc \notin {"new", "done"}

\* The request handler h receives is the one it answered last, and no other
\* handler ever ran.
Repeats(h, ipv4, ipv6, ipv6prefix) ==
    /\ handlers[h].pc = "done"
    /\ \A g \in Handlers \ {h} : handlers[g].pc = "new"
    /\ <<handlers[h].ipv4, handlers[h].ipv6, handlers[h].ipv6prefix>>
            = <<ipv4, ipv6, ipv6prefix>>

\* lines 85-135 up to the first suspension: a request is parsed, rejected,
\* ignored, or its addresses are stored in every target and the targets that
\* need an update are collected for asyncio.gather.
Receive(h, ipv4, ipv6, ipv6prefix) ==
    /\ FirstFree(h)
    /\ passes < MaxPasses
    /\ passes' = passes + 1
    /\ LET req == [NewHandler EXCEPT
                    !.ipv4 = ipv4, !.ipv6 = ipv6, !.ipv6prefix = ipv6prefix,
                    !.repeat = Repeats(h, ipv4, ipv6, ipv6prefix)]
       IN
       IF NoneValid(ipv4, ipv6, ipv6prefix)
       THEN /\ handlers' = [handlers EXCEPT ![h] =
                    [req EXCEPT !.pc = "done", !.result =
                        HTTPException(HTTP_422_UNPROCESSABLE_ENTITY, 99)]]
            /\ UNCHANGED <<dyndns_targets, last_acked, called>>
       ELSE IF IsFritzBoxDuplicate(ipv4, ipv6, ipv6prefix)
       THEN /\ handlers' = [handlers EXCEPT ![h] =
                    [req EXCEPT !.pc = "done",
                                !.result = Response(HTTP_200_OK, 115)]]
            /\ UNCHANGED <<dyndns_targets, last_acked, called>>
       ELSE LET updated == [i \in Targets |->
                    update_ips(dyndns_targets[i], ipv4, ipv6, ipv6prefix)]
            IN  /\ dyndns_targets' = updated
                /\ handlers' = [handlers EXCEPT ![h] =
                        [req EXCEPT
                            !.pc = "gather",
                            !.updated_targets = NeedingUpdate(updated, 1)]]
                /\ UNCHANGED <<last_acked, called>>

\* The request a provider do_update sends, with the new addresses the
\* target holds when it is built (issued: history only).
CallOf(t) ==
    [params |-> RequestParams(t), issued |-> <<t.new_ipv4, t.new_ipv6>>]

\* The record of a call whose do_update has ended.
NoCall == [params |-> <<>>, issued |-> <<>>]

\* The first step of the do_update task of one target: the base class
\* finishes at once; a provider class suspends in session.get.
BeginUpdate(t) ==
    IF t.variant = "generic" THEN SetLastSuccessful(t) ELSE t

\* The handler suspends in asyncio.gather and the tasks it made, queued one
\* behind the other on the event loop, each run to their first suspension.
StartUpdates(h) ==
    /\ handlers[h].pc = "gather"
    /\ LET ut == handlers[h].updated_targets
           mine == {ut[i] : i \in 1..Len(ut)}
       IN  /\ dyndns_targets' = [ti \in Targets |->
                    IF ti \in mine THEN BeginUpdate(dyndns_targets[ti])
                    ELSE dyndns_targets[ti]]
           /\ handlers' = [handlers EXCEPT
                    ![h].pc = "await",
                    ![h].calls = [i \in 1..Len(ut) |->
                        IF dyndns_targets[ut[i]].variant = "generic"
                        THEN NoCall ELSE CallOf(dyndns_targets[ut[i]])],
                    ![h].responses = [i \in 1..Len(ut) |->
                        IF dyndns_targets[ut[i]].variant = "generic"
                        THEN RespTrue ELSE Pending]]
    /\ UNCHANGED <<passes, last_acked, called>>

\* session.get of call i of handler h ends and do_update runs to its end.
FinishUpdate(h, i, outcome) ==
    /\ handlers[h].pc = "await"
    /\ i \in 1..Len(handlers[h].responses)
    /\ handlers[h].responses[i] = Pending
    /\ LET ti == handlers[h].updated_targets[i]
       IN  /\ dyndns_targets' = [dyndns_targets EXCEPT ![ti] =
                do_update_finish(dyndns_targets[ti], outcome)]
           /\ handlers' = [handlers EXCEPT ![h].responses[i] = outcome,
                                           ![h].calls[i] = NoCall]
           /\ last_acked' =
                IF outcome.kind = "True"
                THEN [last_acked EXCEPT ![ti] = <<handlers[h].calls[i].params>>]
                ELSE last_acked
    /\ UNCHANGED <<passes, called>>

\* asyncio.gather without return_exceptions: it returns at the first task
\* that raises.
GatherDone_first_exception(h) ==
    \/ \A i \in 1..Len(handlers[h].responses) :
            handlers[h].responses[i] # Pending
    \/ \E i \in 1..Len(handlers[h].responses) :
            handlers[h].responses[i].kind \in {"ClientResponseError", "Exception"}

\* asyncio.gather(..., return_exceptions=True) returns when every task is
\* done, whatever each ended in.
GatherDone(h) ==
    \A i \in 1..Len(handlers[h].responses) :
            handlers[h].responses[i] # Pending

\* The targets whose do_update did not return True in the pass of handler r.
FailedTargets(r) ==
    {r.updated_targets[i] : i \in {j \in 1..Len(r.responses) :
                                        r.responses[j].kind # "True"}}

\* lines 137-168: the handler resumes after gather and answers.
Reduce(h) ==
    /\ handlers[h].pc = "await"
    /\ GatherDone(h)
    /\ handlers' = [handlers EXCEPT
            ![h].pc = "done",
            ![h].updated_targets = <<>>,
            ![h].calls = <<>>,
            ![h].responses = <<>>,
            ![h].result = Reduction(handlers[h].responses),
            ![h].failed = FailedTargets(handlers[h])]
    /\ UNCHANGED <<dyndns_targets, passes, last_acked, called>>

Next ==
    \/ \E h \in Handlers, ipv4 \in InIPv4, ipv6 \in InIPv6,
          ipv6prefix \in InIPv6Prefix : Receive(h, ipv4, ipv6, ipv6prefix)
    \/ \E h \in Handlers : StartUpdates(h)
    \/ \E h \in Handlers, i \in Targets, outcome \in TransportOutcomes :
          FinishUpdate(h, i, outcome)
    \/ \E h \in Handlers : Reduce(h)

Spec == Init /\ [][Next]_vars

\* ------------------------------------------- ip_from_network_and_suffix alone
\* Every network and every address of the two versions.
Networks ==
    {IPv4Network(n, prefixlen) : n \in 0..(2^V4Bits - 1), prefixlen \in 0..V4Bits}
        \cup
    {IPv6Network(n, prefixlen) : n \in 0..(2^V6Bits - 1), prefixlen \in 0..V6Bits}

Addresses ==
    {IPv4Address(n) : n \in 0..(2^V4Bits - 1)}
        \cup {IPv6Address(n) : n \in 0..(2^V6Bits - 1)}

\* The server is not running: no targets, no request.
NoServer ==
    /\ dyndns_targets = <<>>
    /\ handlers = [h \in Handlers |-> NewHandler]
    /\ passes = 0
    /\ last_acked = <<>>

InitCombiner ==
    /\ NoServer
    /\ called \in
         { [fn |-> "ip_from_network_and_suffix", args |-> <<network, suffix>>,
            returned |-> FALSE, value |-> None] :
                network \in Networks, suffix \in Addresses }

\* One call of ip_from_network_and_suffix(network, suffix) runs to its end;
\* a raised TypeError is the value.
CallCombiner ==
    /\ called.fn = "ip_from_network_and_suffix"
    /\ ~called.returned
    /\ called' = [called EXCEPT
            !.returned = TRUE,
            !.value = ip_from_network_and_suffix(called.args[1], called.args[2])]
    /\ UNCHANGED <<dyndns_targets, handlers, passes, last_acked>>

NextCombiner == CallCombiner

SpecCombiner == InitCombiner /\ [][NextCombiner]_vars

\* ------------------------------------------------ the reduction alone
\* Every list of up to MaxResponses gathered responses.
ResponseLists ==
    UNION {[1..n -> TransportOutcomes] : n \in 0..MaxResponses}

InitReduction ==
    /\ NoServer
    /\ called \in
         { [fn |-> "Reduction", args |-> <<responses>>,
            returned |-> FALSE, value |-> None] :
                responses \in ResponseLists }

\* Lines 137-168 run over one list of responses; a raised NameError is the
\* value.
CallReduction ==
    /\ called.fn = "Reduction"
    /\ ~called.returned
    /\ called' = [called EXCEPT
            !.returned = TRUE,
            !.value = Reduction(called.args[1])]
    /\ UNCHANGED <<dyndns_targets, handlers, passes, last_acked>>

NextReduction == CallReduction

SpecReduction == InitReduction /\ [][NextReduction]_vars

\* ================================================================= claims
\* Shorthands of the properties below.
Desired(t) == <<t.new_ipv4, t.new_ipv6>>
Confirmed(t) == <<t.last_successful_ipv4, t.last_successful_ipv6>>
Failed(response) == response.kind \in {"False", "ClientResponseError", "Exception"}
InFlight(h) == handlers[h].pc \in {"gather", "await"}

\* This step ends call i of handler h with the given kind of outcome.
Finishes(h, i, kinds) ==
    /\ handlers[h].pc = "await"
    /\ i \in 1..Len(handlers[h].responses)
    /\ handlers[h].responses[i] = Pending
    /\ handlers'[h].responses[i].kind \in kinds

\* This step is handler h receiving a request.
Receives(h) == passes' # passes /\ FirstFree(h)

\* ------------------------------------------------------------------- C1
\* C1: when a do_update completes successfully, the target's confirmed
\* addresses equal the desired addresses it held when the call was issued,
\* and needs_update is false right after.
C1_SuccessConfirmsIssued ==
    [][ /\ \A h \in Handlers : \A i \in 1..Len(dyndns_targets) :
             Finishes(h, i, {"True"}) =>
                LET ti == handlers[h].updated_targets[i]
                IN  /\ Confirmed(dyndns_targets'[ti]) = handlers[h].calls[i].issued
                    /\ ~needs_update(dyndns_targets'[ti])
        /\ \A h \in Handlers :
             (handlers[h].pc = "gather" /\ handlers'[h].pc = "await") =>
                \A i \in 1..Len(handlers[h].updated_targets) :
                    LET ti == handlers[h].updated_targets[i]
                    IN  dyndns_targets[ti].variant = "generic" =>
                          /\ Confirmed(dyndns_targets'[ti])
                                = Desired(dyndns_targets[ti])
                          /\ ~needs_update(dyndns_targets'[ti])
      ]_vars

\* ------------------------------------------------------------------- C2
\* C2: a do_update that fails leaves both confirmed addresses of every
\* target as they were, and no step changes the confirmed addresses of a
\* target to anything but its two desired addresses together.
C2_FailureKeepsConfirmed ==
    [][ /\ \A h \in Handlers : \A i \in 1..Len(dyndns_targets) :
             Finishes(h, i, {"False", "ClientResponseError", "Exception"}) =>
                \A ti \in Targets :
                    Confirmed(dyndns_targets'[ti]) = Confirmed(dyndns_targets[ti])
        /\ \A ti \in Targets :
             \/ Confirmed(dyndns_targets'[ti]) = Confirmed(dyndns_targets[ti])
             \/ Confirmed(dyndns_targets'[ti]) = Desired(dyndns_targets[ti])
      ]_vars

\* A call has failed while its target still needs the update.
C2_Witness ==
    \E h \in Handlers : \E i \in 1..Len(handlers[h].responses) :
        /\ Failed(handlers[h].responses[i])
        /\ LET t == dyndns_targets[handlers[h].updated_targets[i]]
           IN  /\ t.new_ipv4 # t.last_successful_ipv4
               /\ t.new_ipv6 # t.last_successful_ipv6

\* ------------------------------------------------------------------- C3
\* C3: a pass always ends by returning a disposition; no exception leaves
\* the handler, whatever its calls ended in.
C3_AlwaysDisposition ==
    \A h \in Handlers :
        handlers[h].pc = "done" =>
            \/ handlers[h].result.kind = "HTTPException"
                 /\ handlers[h].result.status_code = HTTP_422_UNPROCESSABLE_ENTITY
            \/ handlers[h].result.kind = "Response"
                 /\ handlers[h].result.status_code \in
                        { HTTP_200_OK, HTTP_429_TOO_MANY_REQUESTS,
                          HTTP_500_INTERNAL_SERVER_ERROR }

\* ------------------------------------------------------------------- C4
\* The disposition C4 gives for a sequence of call outcomes.
C4_Expected(responses) ==
    LET failures == {i \in 1..Len(responses) : responses[i].kind # "True"}
    IN  IF failures = {} THEN HTTP_200_OK
        ELSE IF \A i \in failures :
                    /\ responses[i].kind = "ClientResponseError"
                    /\ responses[i].status = HTTP_429_TOO_MANY_REQUESTS
             THEN HTTP_429_TOO_MANY_REQUESTS
             ELSE HTTP_500_INTERNAL_SERVER_ERROR

\* C4: a pass that reached the fan-out answers success iff no call failed,
\* rate-limited iff at least one failed and every failure is a 429 status,
\* generic-failure otherwise.
C4_Disposition ==
    [][ \A h \in Handlers :
          (handlers[h].pc = "await" /\ handlers'[h].pc = "done") =>
            /\ handlers'[h].result.kind = "Response"
            /\ handlers'[h].result.status_code
                    = C4_Expected(handlers[h].responses)
      ]_vars

\* ------------------------------------------------------------------- C5
\* C5: passes do not overlap: while one pass is between its first
\* update_ips and its answer, no other pass is.
C5_NoOverlap ==
    \A g, h \in Handlers : (InFlight(g) /\ InFlight(h)) => g = h

\* ------------------------------------------------------------------- C6
\* The address a params dict carries under a key, None when the key is absent.
C6_Carried(params, key) ==
    IF key \in DOMAIN params THEN params[key] ELSE None

C6_Text(addr) == IF addr = None THEN None ELSE compressed(addr)

\* C6: the confirmed addresses of a provider target are empty before the
\* first acknowledged request and otherwise those the last acknowledged
\* request carried, family by family.
C6_ConfirmedIsAcked ==
    \A ti \in Targets :
        LET t == dyndns_targets[ti]
            v4key == CASE t.variant = "ionos" -> "ipv4"
                       [] t.variant = "namecheap" -> "ip"
                       [] OTHER -> "myip"
            v6key == CASE t.variant = "ionos" -> "ipv6"
                       [] t.variant = "namecheap" -> "ipv6"
                       [] OTHER -> "myipv6"
        IN  t.variant # "generic" =>
              IF last_acked[ti] = None
              THEN Confirmed(t) = <<None, None>>
              ELSE /\ C6_Text(t.last_successful_ipv4)
                        = C6_Carried(last_acked[ti][1], v4key)
                   /\ C6_Text(t.last_successful_ipv6)
                        = C6_Carried(last_acked[ti][1], v6key)

\* ------------------------------------------------------------------- C7
\* C7: a request with ipv4, without ipv6 and with a prefix is answered with
\* success at once: no target changes, no call is issued, nothing else moves.
C7_DuplicateIgnored ==
    [][ \A h \in Handlers :
          ( /\ Receives(h)
            /\ handlers'[h].ipv4 # None
            /\ handlers'[h].ipv6 = None
            /\ handlers'[h].ipv6prefix # None ) =>
              /\ dyndns_targets' = dyndns_targets
              /\ last_acked' = last_acked
              /\ handlers'[h].pc = "done"
              /\ handlers'[h].updated_targets = <<>>
              /\ handlers'[h].calls = <<>>
              /\ handlers'[h].result.kind = "Response"
              /\ handlers'[h].result.status_code = HTTP_200_OK
              /\ \A g \in Handlers \ {h} : handlers'[g] = handlers[g]
      ]_vars

\* Such a request was answered while an earlier pass had changed a target
\* and still had a call in flight.
C7_Witness ==
    \E h \in Handlers : \E g \in Handlers :
        /\ handlers[h].pc = "done"
        /\ handlers[h].ipv4 # None
        /\ handlers[h].ipv6 = None
        /\ handlers[h].ipv6prefix # None
        /\ handlers[h].result.status_code = HTTP_200_OK
        /\ handlers[g].pc = "await"
        /\ \E i \in 1..Len(handlers[g].responses) :
                handlers[g].responses[i] = Pending
        /\ \E ti \in Targets : needs_update(dyndns_targets[ti])

\* ------------------------------------------------------------------- C8
\* C8: a request without any valid value is answered invalid-input at once:
\* no target changes, no call is issued, nothing else moves.
C8_InvalidInput ==
    [][ \A h \in Handlers :
          ( /\ Receives(h)
            /\ handlers'[h].ipv4 = None
            /\ handlers'[h].ipv6 = None
            /\ handlers'[h].ipv6prefix = None ) =>
              /\ dyndns_targets' = dyndns_targets
              /\ last_acked' = last_acked
              /\ handlers'[h].pc = "done"
              /\ handlers'[h].updated_targets = <<>>
              /\ handlers'[h].calls = <<>>
              /\ handlers'[h].result.kind = "HTTPException"
              /\ handlers'[h].result.status_code = HTTP_422_UNPROCESSABLE_ENTITY
              /\ \A g \in Handlers \ {h} : handlers'[g] = handlers[g]
      ]_vars

\* Such a request was rejected while the targets held addresses of an
\* earlier pass.
C8_Witness ==
    \E h \in Handlers :
        /\ handlers[h].pc = "done"
        /\ handlers[h].ipv4 = None
        /\ handlers[h].ipv6 = None
        /\ handlers[h].ipv6prefix = None
        /\ handlers[h].result.status_code = HTTP_422_UNPROCESSABLE_ENTITY
        /\ \E ti \in Targets :
                /\ dyndns_targets[ti].new_ipv4 # None
                /\ dyndns_targets[ti].last_successful_ipv4 # None

\* ------------------------------------------------------------------- C9
\* C9: a call that fails leaves every other call of every pass as it is, and
\* a handler answers only when none of its calls is pending.
C9_NoCancelReduceLast ==
    [][ /\ \A h \in Handlers :
             (handlers[h].pc = "await" /\ handlers'[h].pc = "done") =>
                \A i \in 1..Len(handlers[h].responses) :
                    handlers[h].responses[i] # Pending
        /\ \A h \in Handlers : \A i \in 1..Len(dyndns_targets) :
             Finishes(h, i, {"False", "ClientResponseError", "Exception"}) =>
                /\ handlers'[h].pc = "await"
                /\ \A g \in Handlers : \A j \in 1..Len(handlers[g].responses) :
                      <<g, j>> # <<h, i>> =>
                        /\ handlers'[g].pc = handlers[g].pc
                        /\ handlers'[g].responses[j] = handlers[g].responses[j]
                        /\ handlers'[g].calls[j] = handlers[g].calls[j]
      ]_vars

\* One call of a pass has failed and the other call of the pass is still
\* in flight.
C9_Witness ==
    \E h \in Handlers :
        /\ handlers[h].pc = "await"
        /\ Len(handlers[h].responses) = 2
        /\ Failed(handlers[h].responses[1])
        /\ handlers[h].responses[2] = Pending

\* ------------------------------------------------------------------ C10
\* C10: after update_ips a target constructed with a suffix holds
\* Combiner(prefix, suffix) as desired IPv6, or nothing without a prefix; a
\* target constructed without one holds the passed ipv6; both hold the
\* passed ipv4.
C10_DesiredAfterUpdateIps ==
    [][ \A h \in Handlers :
          (Receives(h) /\ handlers'[h].pc = "gather") =>
            \A ti \in Targets :
                LET t == dyndns_targets'[ti]
                    req == handlers'[h]
                IN  /\ t.new_ipv4 = req.ipv4
                    /\ t.new_ipv6 =
                         IF t.ctor_suffix = None THEN req.ipv6
                         ELSE IF req.ipv6prefix = None THEN None
                         ELSE ip_from_network_and_suffix(req.ipv6prefix,
                                                         t.ctor_suffix)
      ]_vars

\* ------------------------------------------------------------------ C11
\* C11: for a Namecheap target, an update_ips that carries the IPv4 address
\* the target already holds as desired leaves needs_update as it was,
\* whatever ipv6 and prefix come with it; a pass collects no call for a
\* Namecheap target whose desired IPv4 equals its confirmed IPv4, and no
\* Namecheap request is issued while the two are equal.
C11_NamecheapIgnoresIPv6 ==
    [][ /\ \A h \in Handlers :
             (Receives(h) /\ handlers'[h].pc = "gather") =>
                \A ti \in Targets :
                    LET t == dyndns_targets[ti]
                        u == dyndns_targets'[ti]
                        ut == handlers'[h].updated_targets
                    IN  t.variant = "namecheap" =>
                          /\ handlers'[h].ipv4 = t.new_ipv4 =>
                                (needs_update(u) <=> needs_update(t))
                          /\ u.new_ipv4 = u.last_successful_ipv4 =>
                                \A i \in 1..Len(ut) : ut[i] # ti
        /\ \A h \in Handlers :
             (handlers[h].pc = "gather" /\ handlers'[h].pc = "await") =>
                \A i \in 1..Len(handlers[h].updated_targets) :
                    LET t == dyndns_targets[handlers[h].updated_targets[i]]
                    IN  t.variant = "namecheap" =>
                            t.new_ipv4 # t.last_successful_ipv4
      ]_vars

\* ------------------------------------------------------------------ C12
\* What C12 gives for needs_update, from the four address fields.
C12_Differs(t) ==
    IF t.variant = "namecheap"
    THEN t.new_ipv4 # t.last_successful_ipv4
    ELSE ~(t.new_ipv4 = t.last_successful_ipv4
            /\ t.new_ipv6 = t.last_successful_ipv6)

\* C12: a pass collects for its updates exactly the targets whose desired
\* IPv4 or IPv6 differs from the confirmed one (Namecheap: whose desired IPv4
\* differs), and needs_update has that value in every state; evaluating it
\* in the pass changes no confirmed address and issues no call.
C12_NeedsUpdateIsDifference ==
    [][ /\ \A ti \in Targets :
             needs_update(dyndns_targets[ti]) <=> C12_Differs(dyndns_targets[ti])
        /\ \A h \in Handlers :
             (Receives(h) /\ handlers'[h].pc = "gather") =>
                LET ut == handlers'[h].updated_targets
                IN  /\ \A ti \in Targets :
                          (\E i \in 1..Len(ut) : ut[i] = ti)
                              <=> C12_Differs(dyndns_targets'[ti])
                    /\ \A ti \in Targets :
                          Confirmed(dyndns_targets'[ti])
                              = Confirmed(dyndns_targets[ti])
                    /\ handlers'[h].calls = <<>>
                    /\ last_acked' = last_acked
      ]_vars

\* A pass has collected a target whose desired and confirmed IPv4 agree and
\* whose IPv6 differ, after a provider had confirmed addresses of it.
C12_Witness ==
    \E h \in Handlers : \E ti \in Targets :
        LET t == dyndns_targets[ti]
        IN  /\ handlers[h].pc = "gather"
            /\ handlers[h].updated_targets = <<ti>>
            /\ t.variant # "namecheap"
            /\ t.new_ipv4 = t.last_successful_ipv4
            /\ t.last_successful_ipv4 # None
            /\ t.new_ipv6 # t.last_successful_ipv6

\* ------------------------------------------------------------------ C13
\* Bit k of a non-negative integer.
C13_Bit(n, k) == (n \div 2^k) % 2

\* C13: for a network and a suffix of the same version the combiner returns
\* the address of that version whose every bit is the OR of the bit of the
\* network address and the bit of the suffix, also where the two overlap; for
\* different versions it raises the mismatch error and returns no address.
C13_CombinerIsBitwiseOr ==
    called.returned =>
        LET network == called.args[1]
            suffix == called.args[2]
            bits == IF version(network) = 4 THEN V4Bits ELSE V6Bits
        IN  IF version(network) = version(suffix)
            THEN /\ Len(called.value) = 2
                 /\ version(called.value) = version(network)
                 /\ IntOf(called.value) \in 0..(2^bits - 1)
                 /\ \A k \in 0..(bits - 1) :
                        C13_Bit(IntOf(called.value), k) = 1
                            <=> \/ C13_Bit(network[2], k) = 1
                                \/ C13_Bit(IntOf(suffix), k) = 1
            ELSE called.value = TypeError

\* The combiner has returned for a suffix that has a bit in common with the
\* network address and a bit of its own.
C13_Witness ==
    /\ called.returned
    /\ version(called.args[1]) = version(called.args[2])
    /\ \E k \in 0..(V6Bits - 1) :
            /\ C13_Bit(called.args[1][2], k) = 1
            /\ C13_Bit(IntOf(called.args[2]), k) = 1
    /\ \E k \in 0..(V6Bits - 1) :
            /\ C13_Bit(called.args[1][2], k) = 0
            /\ C13_Bit(IntOf(called.args[2]), k) = 1

\* ------------------------------------------------------------------ C14
\* C14: a pass that is neither rejected nor ignored applies update_ips to
\* every target; it collects, once each, exactly the targets whose
\* needs_update is true after that, and starts one do_update for each of
\* them and none for the others; no step of the pass changes a target it has
\* not collected, whose new desired addresses stay.
C14_UpdateExactlyNeeding ==
    [][ /\ \A h \in Handlers :
             (Receives(h) /\ handlers'[h].pc = "gather") =>
                LET req == handlers'[h]
                    ut == req.updated_targets
                IN  /\ \A ti \in Targets :
                          /\ dyndns_targets'[ti].new_ipv4 = req.ipv4
                          /\ dyndns_targets'[ti] =
                                update_ips(dyndns_targets[ti], req.ipv4,
                                           req.ipv6, req.ipv6prefix)
                          /\ needs_update(dyndns_targets'[ti])
                                <=> \E i \in 1..Len(ut) : ut[i] = ti
                    /\ \A i, j \in 1..Len(ut) :
                          (ut[i] \in Targets) /\ (ut[i] = ut[j] => i = j)
        /\ \A h \in Handlers :
             (handlers[h].pc = "gather" /\ handlers'[h].pc = "await") =>
                LET ut == handlers[h].updated_targets
                IN  /\ handlers'[h].updated_targets = ut
                    /\ Len(handlers'[h].responses) = Len(ut)
                    /\ Len(handlers'[h].calls) = Len(ut)
                    /\ \A i \in 1..Len(ut) :
                          dyndns_targets[ut[i]].variant # "generic" =>
                            /\ handlers'[h].responses[i] = Pending
                            /\ handlers'[h].calls[i] # NoCall
                    /\ \A ti \in Targets :
                          (\A i \in 1..Len(ut) : ut[i] # ti) =>
                              dyndns_targets'[ti] = dyndns_targets[ti]
        /\ \A h \in Handlers : \A i \in 1..Len(dyndns_targets) :
             Finishes(h, i, {"True", "False", "ClientResponseError", "Exception"}) =>
                /\ handlers'[h].updated_targets = handlers[h].updated_targets
                /\ Len(handlers'[h].responses) = Len(handlers[h].responses)
                /\ \A ti \in Targets :
                      ti # handlers[h].updated_targets[i] =>
                          dyndns_targets'[ti] = dyndns_targets[ti]
        /\ \A h \in Handlers :
             (handlers[h].pc = "await" /\ handlers'[h].pc = "done") =>
                dyndns_targets' = dyndns_targets
      ]_vars

\* A pass has started the call of the one target of two that needs an
\* update; the other holds the new desired addresses and no confirmed one.
C14_Witness ==
    \E h \in Handlers :
        /\ Len(dyndns_targets) = 2
        /\ handlers[h].pc = "await"
        /\ handlers[h].updated_targets = <<2>>
        /\ handlers[h].responses = <<Pending>>
        /\ ~needs_update(dyndns_targets[1])
        /\ Desired(dyndns_targets[1]) # <<None, None>>
        /\ Confirmed(dyndns_targets[1]) = <<None, None>>

\* ------------------------------------------------------------------ C15
\* The fields of a target neither update_ips nor do_update writes.
C15_Fixed(t) == <<t.variant, t.name, t.ctor_suffix, t.ipv6_suffix>>

\* C15: the update_ips of a pass changes of each target only the desired
\* addresses, not the confirmed ones, the name or the suffix; a do_update on
\* a target changes only the confirmed addresses of that target, not its
\* desired ones, and nothing of any other target.
C15_Frame ==
    [][ /\ \A ti \in Targets :
             C15_Fixed(dyndns_targets'[ti]) = C15_Fixed(dyndns_targets[ti])
        /\ Len(dyndns_targets') = Len(dyndns_targets)
        /\ \A h \in Handlers :
             Receives(h) =>
                \A ti \in Targets :
                    Confirmed(dyndns_targets'[ti]) = Confirmed(dyndns_targets[ti])
        /\ \A h \in Handlers :
             (handlers[h].pc = "gather" /\ handlers'[h].pc = "await") =>
                \A ti \in Targets :
                    /\ Desired(dyndns_targets'[ti]) = Desired(dyndns_targets[ti])
                    /\ Confirmed(dyndns_targets'[ti]) # Confirmed(dyndns_targets[ti])
                        => /\ dyndns_targets[ti].variant = "generic"
                           /\ \E i \in 1..Len(handlers[h].updated_targets) :
                                  handlers[h].updated_targets[i] = ti
        /\ \A h \in Handlers : \A i \in 1..Len(dyndns_targets) :
             Finishes(h, i, {"True", "False", "ClientResponseError", "Exception"}) =>
                \A ti \in Targets :
                    /\ Desired(dyndns_targets'[ti]) = Desired(dyndns_targets[ti])
                    /\ ti # handlers[h].updated_targets[i] =>
                          Confirmed(dyndns_targets'[ti])
                              = Confirmed(dyndns_targets[ti])
      ]_vars

\* Of two targets that were given new desired addresses, a do_update has
\* confirmed those of the second while the first is as update_ips left it.
C15_Witness ==
    /\ Len(dyndns_targets) = 2
    /\ Desired(dyndns_targets[1]) # <<None, None>>
    /\ Confirmed(dyndns_targets[1]) = <<None, None>>
    /\ Desired(dyndns_targets[2]) # <<None, None>>
    /\ Confirmed(dyndns_targets[2]) = Desired(dyndns_targets[2])

\* ------------------------------------------------------------------ C16
\* The request carries addr under key, or lacks key when addr is absent.
C16_Carries(params, key, addr) ==
    IF addr = None THEN key \notin DOMAIN params
    ELSE key \in DOMAIN params /\ params[key] = compressed(addr)

\* C16: the request of a do_update carries the desired addresses the target
\* holds when the request is issued: Ionos as ipv4 and ipv6, INWX as myip
\* and myipv6, each exactly when that address is present; Namecheap as ip
\* exactly when the IPv4 address is present, and never an IPv6 address; and
\* the request stays as issued while it is in flight.
C16_RequestCarriesDesired ==
    [][ /\ \A h \in Handlers :
             (handlers[h].pc = "gather" /\ handlers'[h].pc = "await") =>
                \A i \in 1..Len(handlers[h].updated_targets) :
                    LET t == dyndns_targets[handlers[h].updated_targets[i]]
                        params == handlers'[h].calls[i].params
                    IN  CASE t.variant = "ionos" ->
                                /\ C16_Carries(params, "ipv4", t.new_ipv4)
                                /\ C16_Carries(params, "ipv6", t.new_ipv6)
                                /\ DOMAIN params \subseteq {"ipv4", "ipv6"}
                          [] t.variant = "inwx" ->
                                /\ C16_Carries(params, "myip", t.new_ipv4)
                                /\ C16_Carries(params, "myipv6", t.new_ipv6)
                                /\ DOMAIN params \subseteq {"myip", "myipv6"}
                          [] t.variant = "namecheap" ->
                                /\ C16_Carries(params, "ip", t.new_ipv4)
                                /\ DOMAIN params \subseteq {"ip"}
                          [] OTHER -> handlers'[h].calls[i] = NoCall
        /\ \A h \in Handlers : \A i \in 1..Len(handlers[h].responses) :
             ( /\ handlers[h].pc = "await"
               /\ handlers[h].responses[i] = Pending
               /\ handlers'[h].pc = "await"
               /\ handlers'[h].responses[i] = Pending ) =>
                    handlers'[h].calls[i] = handlers[h].calls[i]
      ]_vars

\* A Namecheap request is in flight that carries the IPv4 address and
\* nothing else although the target holds a desired IPv6 address, while a
\* later pass has already changed the desired addresses.
C16_Witness ==
    \E h \in Handlers : \E i \in 1..Len(handlers[h].responses) :
        LET t == dyndns_targets[handlers[h].updated_targets[i]]
        IN  /\ handlers[h].pc = "await"
            /\ handlers[h].responses[i] = Pending
            /\ t.variant = "namecheap"
            /\ handlers[h].calls[i].issued[2] # None
            /\ DOMAIN handlers[h].calls[i].params = {"ip"}
            /\ Desired(t) # handlers[h].calls[i].issued

\* ------------------------------------------------------------------ C17
\* The orders a list of n responses can be gathered in.
C17_Orders(n) ==
    {f \in [1..n -> 1..n] : \A i, j \in 1..n : f[i] = f[j] => i = j}

\* C17: the reduction gives the same answer for a list of call outcomes in
\* whatever order the outcomes stand in the list.
C17_OrderIndependent ==
    (called.fn = "Reduction" /\ called.returned) =>
        LET responses == called.args[1]
        IN  \A f \in C17_Orders(Len(responses)) :
                Reduction([i \in 1..Len(responses) |-> responses[f[i]]])
                    = called.value

\* The reduction has answered for three outcomes that are all different: a
\* 429 status, another failure and a success.
C17_Witness ==
    /\ called.fn = "Reduction"
    /\ called.returned
    /\ Len(called.args[1]) = 3
    /\ \E f \in C17_Orders(3) :
            /\ called.args[1][f[1]] = ClientResponseError(HTTP_429_TOO_MANY_REQUESTS)
            /\ called.args[1][f[2]].kind \in {"False", "Exception"}
            /\ called.args[1][f[3]] = RespTrue

\* ------------------------------------------------------------------ C18
\* C18: when the request answered last is received again, with no request
\* in between and none served at the same time, the second pass collects
\* exactly the targets whose call failed in the first, once each; if the
\* first was answered with success the second issues no call and is
\* answered with success.
C18_RepeatCallsOnlyFailed ==
    [][ \A h \in Handlers :
          /\ ( /\ Receives(h)
               /\ handlers[h].pc = "done"
               /\ \A g \in Handlers \ {h} : handlers[g].pc = "new"
               /\ handlers'[h].ipv4 = handlers[h].ipv4
               /\ handlers'[h].ipv6 = handlers[h].ipv6
               /\ handlers'[h].ipv6prefix = handlers[h].ipv6prefix ) =>
                  LET ut == handlers'[h].updated_targets
                  IN  /\ handlers'[h].repeat
                      /\ {ut[i] : i \in 1..Len(ut)} = handlers[h].failed
                      /\ Len(ut) = Cardinality(handlers[h].failed)
                      /\ handlers[h].result = Response(HTTP_200_OK, 164) =>
                            /\ ut = <<>>
                            /\ handlers'[h].pc = "gather"
          /\ ( /\ handlers[h].repeat
               /\ handlers[h].updated_targets = <<>>
               /\ handlers[h].pc = "gather" ) =>
                  /\ handlers'[h].pc = "await" =>
                        /\ handlers'[h].calls = <<>>
                        /\ handlers'[h].responses = <<>>
          /\ ( /\ handlers[h].repeat
               /\ handlers[h].updated_targets = <<>>
               /\ handlers[h].pc = "await"
               /\ handlers'[h].pc = "done" ) =>
                  handlers'[h].result = Response(HTTP_200_OK, 164)
      ]_vars

\* The second pass of a repeated request has collected the one target of two
\* whose call failed in the first; the other holds as confirmed the
\* addresses the first pass sent.
C18_Witness ==
    \E h \in Handlers :
        /\ handlers[h].repeat
        /\ handlers[h].pc = "gather"
        /\ Len(dyndns_targets) = 2
        /\ handlers[h].updated_targets = <<2>>
        /\ dyndns_targets[1].new_ipv4 # None
        /\ dyndns_targets[1].last_successful_ipv4 = dyndns_targets[1].new_ipv4
        /\ Confirmed(dyndns_targets[2]) = <<None, None>>

====
